---------------------------- MODULE Spec2Model ----------------------------
(***************************************************************************)
(* StockSense: the indicator / forecast functions of analytics.py and      *)
(* forecast.py, and the menu loop of main.py.                              *)
(*                                                                         *)
(* Representation.                                                         *)
(*  - A float is an exact rational [n |-> numerator, d |-> denominator],   *)
(*    d > 0, in lowest terms; pandas' missing value NaN is the one record  *)
(*    with d = 0.  The inputs drawn are integers and the windows small, so *)
(*    the values the code rounds are never within float error of a         *)
(*    rounding tie unless they sit exactly on one.                         *)
(*  - The result of Python's round(x, 2) is the integer number of          *)
(*    hundredths (5.0 is 500, 1.46 is 146), rounded half to even as        *)
(*    round() does.                                                        *)
(*  - A DataFrame is [rows |-> the "Adj Close" column, cols |-> its column *)
(*    names, Return, Cumulative |-> the derived columns once added]; the   *)
(*    date of row t is t (dates are unique and increasing).  An absent     *)
(*    frame, and any other absent value, is None.                          *)
(*  - A call returns a record that holds, next to the returned value, the  *)
(*    caller's argument object as the call leaves it (field df / prices).  *)
(***************************************************************************)
EXTENDS Integers, Sequences, FiniteSets

VARIABLES
    df,       \* the caller's DataFrame (or None) handed to analytics.py
    prices,   \* the caller's price list handed to forecast.py
    call,     \* the core call made: its name, arguments (arg is the input as
              \* it was when passed) and result
    pc,       \* main(): "menu" while the loop runs, "exited" after sys.exit
    data,     \* main(): the fetched DataFrame, None before the first fetch
    ticker,   \* main(): current ticker
    start,    \* main(): current start date
    end,      \* main(): current end date
    logs,     \* the lines of logs.csv written by log_action
    last      \* main(): what the last loop iteration did

coreVars == <<df, prices, call>>
menuVars == <<pc, data, ticker, start, end, logs, last>>
vars == <<df, prices, call, pc, data, ticker, start, end, logs, last>>

None == [kind |-> "None"]
NaN == [n |-> 0, d |-> 0]
IsNaN(x) == x.d = 0

(***************************************************************************)
(* Bounds of the model.                                                    *)
(***************************************************************************)
MaxLen == 5        \* longest price series drawn
MaxPrice == 3      \* prices are drawn from 1..MaxPrice
MaxWindow == 3     \* moving-average windows are drawn from 1..MaxWindow
MaxDays == 4       \* forecast horizons are drawn from 0..MaxDays
MaxLog == 2        \* logs.csv is followed for its first MaxLog lines

(***************************************************************************)
(* Exact arithmetic standing for the float arithmetic of the code.         *)
(***************************************************************************)
Abs(x) == IF x < 0 THEN -x ELSE x

RECURSIVE GCD(_, _)
GCD(a, b) == IF b = 0 THEN a ELSE GCD(b, a % b)

Rat(n, d) ==
    LET s == IF d < 0 THEN -1 ELSE 1
        g == GCD(Abs(n), Abs(d))
    IN  [n |-> (s * n) \div g, d |-> (s * d) \div g]

ToRat(i) == [n |-> i, d |-> 1]
RatAdd(a, b) == Rat(a.n * b.d + b.n * a.d, a.d * b.d)
RatSub(a, b) == Rat(a.n * b.d - b.n * a.d, a.d * b.d)
RatMul(a, b) == Rat(a.n * b.n, a.d * b.d)
RatDiv(a, b) == Rat(a.n * b.d, a.d * b.n)
RatLess(a, b) == a.n * b.d < b.n * a.d
RatLeq(a, b) == a.n * b.d <= b.n * a.d

\* round(x, 2): the nearest hundredth, a tie going to the even one.
Round2(q) ==
    LET x  == 100 * q.n
        fl == x \div q.d
        r  == x - fl * q.d
    IN  IF 2 * r < q.d THEN fl
        ELSE IF 2 * r > q.d THEN fl + 1
        ELSE IF fl % 2 = 0 THEN fl ELSE fl + 1

RECURSIVE RatSum(_)
RatSum(s) == IF s = <<>> THEN ToRat(0) ELSE RatAdd(Head(s), RatSum(Tail(s)))

\* statistics.mean(xs)
mean(xs) == RatDiv(RatSum(xs), ToRat(Len(xs)))

\* xs[-n:] for n >= 1
LastN(xs, n) == IF n >= Len(xs) THEN xs ELSE SubSeq(xs, Len(xs) - n + 1, Len(xs))

(***************************************************************************)
(* forecast.py                                                             *)
(***************************************************************************)
\* Variant of MAStep: the rounded forecast point is what is fed back.
MAStepRounded(st, window) ==
    LET avg == mean(LastN(st.temp_prices, window))
    IN  [prices      |-> st.prices,
         temp_prices |-> Append(st.temp_prices, Rat(Round2(avg), 100)),
         forecast    |-> Append(st.forecast, Round2(avg))]

\* One pass of the loop body of moving_average_forecast.  temp_prices is the
\* copy made by prices.copy(), so the append reaches temp_prices only, and it
\* appends avg itself, not the rounded forecast point.
MAStep(st, window) ==
    LET avg == mean(LastN(st.temp_prices, window))
    IN  [prices      |-> st.prices,
         temp_prices |-> Append(st.temp_prices, avg),
         forecast    |-> Append(st.forecast, Round2(avg))]

RECURSIVE MALoop(_, _, _)
MALoop(st, window, k) ==
    IF k <= 0 THEN st ELSE MALoop(MAStep(st, window), window, k - 1)

\* Variant of MAGuard: the length is not compared with the window.
MAGuardOff(ps, window) == ps = <<>>

\* if not prices or len(prices) < window
MAGuard(ps, window) == ps = <<>> \/ Len(ps) < window

moving_average_forecast(ps, window, days) ==
    IF MAGuard(ps, window)
    THEN [ret |-> <<>>, prices |-> ps]
    ELSE LET st == MALoop([prices      |-> ps,
                           temp_prices |-> [i \in 1..Len(ps) |-> ToRat(ps[i])],
                           forecast    |-> <<>>], window, days)
         IN  [ret |-> st.forecast, prices |-> st.prices]

RECURSIVE SumTo(_, _)
\* sum of f[i] for i in 1..n
SumTo(f, n) == IF n = 0 THEN 0 ELSE f[n] + SumTo(f, n - 1)

\* np.polyfit(x, y, 1) with x = 0..N-1: the least-squares slope and intercept.
polyfit(ps) ==
    LET N   == Len(ps)
        Sx  == SumTo([i \in 1..N |-> i - 1], N)
        Sxx == SumTo([i \in 1..N |-> (i - 1) * (i - 1)], N)
        Sy  == SumTo([i \in 1..N |-> ps[i]], N)
        Sxy == SumTo([i \in 1..N |-> (i - 1) * ps[i]], N)
        m   == Rat(N * Sxy - Sx * Sy, N * Sxx - Sx * Sx)
        c   == RatDiv(RatSub(ToRat(Sy), RatMul(m, ToRat(Sx))), ToRat(N))
    IN  [m |-> m, c |-> c]

\* m * x + c
LineAt(fit, x) == RatAdd(RatMul(fit.m, ToRat(x)), fit.c)

\* future_x = len(prices) + i, for i in range(1, days + 1)
future_x(ps, i) == Len(ps) + i

linear_trend_forecast(ps, days) ==
    IF ps = <<>> \/ Len(ps) < 2
    THEN [ret |-> <<>>, prices |-> ps]
    ELSE LET fit == polyfit(ps)
         IN  [ret    |-> [i \in 1..days |-> Round2(LineAt(fit, future_x(ps, i)))],
              prices |-> ps]

(***************************************************************************)
(* analytics.py                                                            *)
(***************************************************************************)
SMA_SHORT == 20
SMA_LONG == 50
RSI_WINDOW == 14
VOL_WINDOW == 30

\* The frame fetch_data hands over: its price rows and the downloaded columns.
DataFrame(rows) ==
    [kind |-> "DataFrame", rows |-> rows, cols |-> {"Close", "Adj Close"},
     Return |-> <<>>, Cumulative |-> <<>>]

\* df.empty
empty(d) == d.rows = <<>>

\* df[name] = vals on one frame object
WithColumn(d, name, vals) ==
    IF name = "Return"
    THEN [d EXCEPT !.cols = @ \cup {name}, !.Return = vals]
    ELSE [d EXCEPT !.cols = @ \cup {name}, !.Cumulative = vals]

\* df = df.copy(): the function's local frame is a new object, the caller's
\* frame is kept beside it to follow what the call does to it.
copy(d) == [caller |-> d, local |-> d]

\* Variant of SetColumn: no copy was taken, the caller's frame is the local one.
SetColumnAliased(fr, name, vals) ==
    [caller |-> WithColumn(fr.caller, name, vals),
     local  |-> WithColumn(fr.local, name, vals)]

\* df[name] = vals after df = df.copy(): only the local frame changes.
SetColumn(fr, name, vals) ==
    [caller |-> fr.caller, local |-> WithColumn(fr.local, name, vals)]

\* Series.pct_change(): no value on the first row.
pct_change(xs) ==
    [t \in 1..Len(xs) |-> IF t = 1 THEN NaN ELSE Rat(xs[t] - xs[t - 1], xs[t - 1])]

\* 1 + series, series - 1: NaN stays NaN
Plus1(xs) == [t \in 1..Len(xs) |-> IF IsNaN(xs[t]) THEN NaN ELSE RatAdd(ToRat(1), xs[t])]
Minus1(xs) == [t \in 1..Len(xs) |-> IF IsNaN(xs[t]) THEN NaN ELSE RatSub(xs[t], ToRat(1))]

RECURSIVE ProdTo(_, _)
\* the product of the values of xs[1..t] that are not NaN
ProdTo(xs, t) ==
    IF t = 0 THEN ToRat(1)
    ELSE IF IsNaN(xs[t]) THEN ProdTo(xs, t - 1)
    ELSE RatMul(ProdTo(xs, t - 1), xs[t])

\* Series.cumprod(): NaN rows are skipped and stay NaN.
cumprod(xs) == [t \in 1..Len(xs) |-> IF IsNaN(xs[t]) THEN NaN ELSE ProdTo(xs, t)]

RECURSIVE MaxTo(_, _)
\* the largest value of xs[1..t] that is not NaN (NaN when there is none)
MaxTo(xs, t) ==
    IF t = 0 THEN NaN
    ELSE LET m == MaxTo(xs, t - 1)
         IN  IF IsNaN(xs[t]) THEN m
             ELSE IF IsNaN(m) THEN xs[t]
             ELSE IF RatLess(m, xs[t]) THEN xs[t] ELSE m

RECURSIVE MinTo(_, _)
MinTo(xs, t) ==
    IF t = 0 THEN NaN
    ELSE LET m == MinTo(xs, t - 1)
         IN  IF IsNaN(xs[t]) THEN m
             ELSE IF IsNaN(m) THEN xs[t]
             ELSE IF RatLess(xs[t], m) THEN xs[t] ELSE m

\* Series.cummax(): NaN rows are skipped and stay NaN.
cummax(xs) == [t \in 1..Len(xs) |-> IF IsNaN(xs[t]) THEN NaN ELSE MaxTo(xs, t)]

\* Series.min()
min(xs) == MinTo(xs, Len(xs))

\* Series.idxmin(): the first row holding the minimum; 0 when every row is NaN
\* or there is no row (no label: pandas returns nan or raises, by version).
idxmin(xs) ==
    IF IsNaN(min(xs)) THEN 0
    ELSE CHOOSE t \in 1..Len(xs) :
            /\ ~IsNaN(xs[t]) /\ xs[t] = min(xs)
            /\ \A u \in 1..(t - 1) : IsNaN(xs[u]) \/ xs[u] # min(xs)

\* Series.idxmax(): the first row holding the maximum.
idxmax(xs) ==
    IF IsNaN(MaxTo(xs, Len(xs))) THEN 0
    ELSE CHOOSE t \in 1..Len(xs) :
            /\ ~IsNaN(xs[t]) /\ xs[t] = MaxTo(xs, Len(xs))
            /\ \A u \in 1..(t - 1) : IsNaN(xs[u]) \/ xs[u] # MaxTo(xs, Len(xs))

\* str(ts.date()) of row t, and the sentinel string
DateStr(t) == <<"date", t>>
NA == <<"N/A">>
\* a number in a summary, in hundredths
Num(c) == <<"num", c>>

compute_returns(d) ==
    IF d = None
    THEN [raised |-> TRUE, exc |-> "AttributeError", ret |-> None, df |-> d]
    ELSE LET f0 == copy(d)
             f1 == SetColumn(f0, "Return", pct_change(f0.local.rows))
             f2 == SetColumn(f1, "Cumulative", Minus1(cumprod(Plus1(f1.local.Return))))
         IN  [raised |-> FALSE, exc |-> "", ret |-> f2.local, df |-> f2.caller]

\* (df["Cumulative"] - cummax) / cummax
DrawdownSeries(cum) ==
    LET cm == cummax(cum)
    IN  [t \in 1..Len(cum) |->
            IF IsNaN(cum[t]) \/ IsNaN(cm[t]) THEN NaN
            ELSE RatDiv(RatSub(cum[t], cm[t]), cm[t])]

\* df.loc[:end_date, "Cumulative"].idxmax()
PeakDate(cum, end_date) == idxmax(SubSeq(cum, 1, end_date))

compute_drawdown(d) ==
    IF d = None
    THEN [raised |-> TRUE, exc |-> "AttributeError", ret |-> None, df |-> d]
    ELSE LET f0 == copy(d)
             f1 == SetColumn(f0, "Cumulative", cumprod(Plus1(pct_change(f0.local.rows))))
             drawdown == DrawdownSeries(f1.local.Cumulative)
             min_dd == min(drawdown)
             end_date == idxmin(drawdown)
         IN  IF end_date = 0
             \* no row has a drawdown: idxmin raises, or returns nan and
             \* nan.date() raises, according to the pandas version
             THEN [raised |-> TRUE, exc |-> "Exception", ret |-> None, df |-> f1.caller]
             ELSE LET start_date == PeakDate(f1.local.Cumulative, end_date)
                  IN  [raised |-> FALSE, exc |-> "",
                       ret |-> [max_drawdown |-> RatMul(min_dd, ToRat(100)),
                                start_date |-> IF start_date # 0
                                               THEN DateStr(start_date) ELSE NA,
                                end_date |-> DateStr(end_date)],
                       df |-> f1.caller]

\* compute_sma(df, window).iloc[-1]: no value before `window` rows exist
SmaLast(rows, window) ==
    IF Len(rows) < window THEN NaN
    ELSE mean([i \in 1..window |-> ToRat(rows[Len(rows) - window + i])])

\* the sma_trend label; a comparison with NaN is False
SmaTrend(sma20, sma50) ==
    IF ~IsNaN(sma20) /\ ~IsNaN(sma50) /\ RatLess(sma50, sma20)
    THEN "UP (bullish short-term)"
    ELSE IF ~IsNaN(sma20) /\ ~IsNaN(sma50) /\ RatLess(sma20, sma50)
    THEN "DOWN (bearish short-term)"
    ELSE "Neutral"

\* compute_rsi(df, 14).iloc[-1] has a value once min_periods = window price
\* changes exist, that is from the (window + 1)-th row on.
RsiDefined(rows) == Len(rows) >= RSI_WINDOW + 1

\* the rsi field: NaN is below no threshold and prints as "nan".  The value
\* itself, when defined, is not computed here.
RsiStatus(rows) ==
    IF RsiDefined(rows) THEN "<rsi> (<status>)" ELSE "nan (neutral)"

\* returns.tail(window).std() has a value when at least two of the last
\* `window` returns are not NaN.
VolDefined(rows) ==
    LET rets == pct_change(rows)
        tl == LastN(rets, VOL_WINDOW)
    IN  Cardinality({t \in 1..Len(tl) : ~IsNaN(tl[t])}) >= 2

\* round(vol30, 2): round(nan, 2) is nan.  The value itself, when defined, is
\* not computed here.
VolField(rows) == IF VolDefined(rows) THEN <<"num", "std">> ELSE <<"nan">>

\* Variant of AnalyzeGuard: df.empty is not tested.
AnalyzeGuardNoneOnly(d) == d = None

\* if df is None or df.empty
AnalyzeGuard(d) == d = None \/ empty(d)

analyze(d, annualize_vol) ==
    IF AnalyzeGuard(d)
    THEN [raised |-> TRUE, exc |-> "ValueError", ret |-> None, df |-> d,
          computed |-> <<>>]
    ELSE IF empty(d)
    \* df["Adj Close"].iloc[-1] of a frame without rows
    THEN [raised |-> TRUE, exc |-> "IndexError", ret |-> None,
          df |-> compute_returns(d).df, computed |-> <<"returns">>]
    ELSE LET r == compute_returns(d)
             rows == r.ret.rows
             last_close == rows[Len(rows)]
             sma_trend == SmaTrend(SmaLast(rows, SMA_SHORT), SmaLast(rows, SMA_LONG))
             dd == compute_drawdown(r.ret)
             done == <<"returns", "last_close", "sma", "rsi", "volatility">>
         IN  IF dd.raised
             THEN [raised |-> TRUE, exc |-> dd.exc, ret |-> None, df |-> r.df,
                   computed |-> done]
             ELSE [raised |-> FALSE, exc |-> "",
                   ret |-> [last_close |-> Num(100 * last_close),
                            sma_trend |-> sma_trend,
                            rsi |-> RsiStatus(rows),
                            volatility_30d |-> VolField(rows),
                            max_drawdown |-> Num(Round2(dd.ret.max_drawdown)),
                            dd_start |-> dd.ret.start_date,
                            dd_end |-> dd.ret.end_date],
                   df |-> r.df,
                   computed |-> Append(done, "drawdown")]


(***************************************************************************)
(* The core functions called on every input of the bounded input space.    *)
(***************************************************************************)
\* Worked examples: forecast.py's sample_prices and the two series of the
\* documented forecast examples.
Examples == {<<100, 102, 105, 107, 110, 115>>, <<10, 20, 30>>, <<1, 2, 3, 4>>}

Series == UNION {[1..n -> 1..MaxPrice] : n \in 0..MaxLen} \cup Examples

Windows == 1..MaxWindow
Horizons == 0..MaxDays

NoCall == [op |-> "none"]

MenuIdle ==
    /\ pc = "menu"
    /\ data = None
    /\ ticker = "AAPL"
    /\ start = "2018-01-01"
    /\ end = "today"
    /\ logs = <<>>
    /\ last = [choice |-> "none", outcome |-> "none", invoked |-> <<>>,
               statuses |-> <<>>]

Init ==
    /\ \E s \in Series :
          /\ prices = s
          /\ df \in (IF s = <<>> THEN {None, DataFrame(s)} ELSE {DataFrame(s)})
    /\ call = NoCall
    /\ MenuIdle

CallComputeReturns ==
    LET res == compute_returns(df)
    IN  /\ call = NoCall
        /\ call' = [op |-> "compute_returns", arg |-> df, res |-> res]
        /\ df' = res.df
        /\ UNCHANGED <<prices, menuVars>>

CallComputeDrawdown ==
    LET res == compute_drawdown(df)
    IN  /\ call = NoCall
        /\ call' = [op |-> "compute_drawdown", arg |-> df, res |-> res]
        /\ df' = res.df
        /\ UNCHANGED <<prices, menuVars>>

CallAnalyze ==
    \E annualize_vol \in BOOLEAN :
        LET res == analyze(df, annualize_vol)
        IN  /\ call = NoCall
            /\ call' = [op |-> "analyze", arg |-> df,
                        annualize_vol |-> annualize_vol, res |-> res]
            /\ df' = res.df
            /\ UNCHANGED <<prices, menuVars>>

CallMovingAverageForecast ==
    \E window \in Windows, days \in Horizons :
        LET res == moving_average_forecast(prices, window, days)
        IN  /\ call = NoCall
            /\ call' = [op |-> "moving_average_forecast", arg |-> prices,
                        window |-> window, days |-> days, res |-> res]
            /\ prices' = res.prices
            /\ UNCHANGED <<df, menuVars>>

CallLinearTrendForecast ==
    \E days \in Horizons :
        LET res == linear_trend_forecast(prices, days)
        IN  /\ call = NoCall
            /\ call' = [op |-> "linear_trend_forecast", arg |-> prices,
                        days |-> days, res |-> res]
            /\ prices' = res.prices
            /\ UNCHANGED <<df, menuVars>>

Next ==
    \/ CallComputeReturns
    \/ CallComputeDrawdown
    \/ CallAnalyze
    \/ CallMovingAverageForecast
    \/ CallLinearTrendForecast

Spec == Init /\ [][Next]_vars


(***************************************************************************)
(* main.py: the menu loop.  One action per menu choice, each the whole     *)
(* iteration of the while loop.  input() is taken to return a string.      *)
(* A line of logs.csv is [action, ticker, start, end, rows, status]; the   *)
(* timestamp and the note are left out.                                    *)
(***************************************************************************)
Tickers == {"AAPL", "MSFT"}
Starts == {"2018-01-01"}
Ends == {"today"}

\* The frames fetch_data can return: cleaned and never empty.
FetchFrames == {DataFrame(<<1>>), DataFrame(<<2, 1>>)}

\* len(data)
len(d) == Len(d.rows)

\* The functions each imported module defines.
ModuleAttrs ==
    [utils     |-> {"clear_screen", "safe_input", "show_progress", "print_line",
                    "safe_division"},
     charts    |-> {"plot_price", "plot_moving_average", "plot_comparison"},
     forecast  |-> {"moving_average_forecast", "linear_trend_forecast"},
     analytics |-> {"compute_returns", "compute_sma", "compute_ema", "compute_rsi",
                    "compute_volatility", "compute_drawdown", "analyze",
                    "export_report"},
     data_io   |-> {"safe_filename", "clean_data", "fetch_data", "read_offline"}]

\* module.name resolves; otherwise the attribute access raises AttributeError
HasAttr(module, name) == name \in ModuleAttrs[module]

LogLine(action, rows, status) ==
    [action |-> action, ticker |-> ticker, start |-> start, end |-> end,
     rows |-> rows, status |-> status]

\* log_action: append the line to logs.csv; a failure to write is ignored.
log_action(lg, line, writable) == IF writable THEN Append(lg, line) ELSE lg

\* What an iteration did: the choice, how its handler ended ("ok", "error",
\* "nodata", "invalid", "quit"), the functions of the other modules it called,
\* and the statuses it passed to log_action.
Did(choice, outcome, invoked, statuses) ==
    [choice |-> choice, outcome |-> outcome, invoked |-> invoked,
     statuses |-> statuses]

MenuInit ==
    /\ df = None
    /\ prices = <<>>
    /\ call = NoCall
    /\ MenuIdle

\* Variant of AssignFetched: a failed fetch resets data.
AssignFetchedOrNone(old, fetched) == fetched

\* data = data_io.fetch_data(...): the assignment happens only when the call
\* returns (fetched = None stands for the call raising).
AssignFetched(old, fetched) == IF fetched = None THEN old ELSE fetched

\* choice == "1": fetch or update
Fetch ==
    /\ pc = "menu"
    /\ Len(logs) < MaxLog
    /\ \E t \in Tickers, s \in Starts, e \in Ends, writable \in BOOLEAN,
          fetched \in FetchFrames \cup {None} :
          \* fetched = None: data_io.fetch_data raised
          /\ ticker' = t
          /\ start' = s
          /\ end' = e
          /\ data' = AssignFetched(data, fetched)
          /\ logs' = log_action(logs,
                        [action |-> "FETCH", ticker |-> t, start |-> s, end |-> e,
                         rows |-> IF fetched = None THEN 0 ELSE len(fetched),
                         status |-> IF fetched = None THEN "ERROR" ELSE "OK"],
                        writable)
          /\ last' = Did("1", IF fetched = None THEN "error" ELSE "ok",
                         <<"data_io.fetch_data">>,
                         <<IF fetched = None THEN "ERROR" ELSE "OK">>)
    /\ UNCHANGED <<pc, coreVars>>

\* Variant of NoData: choice "2" has no `if data is None` test, so analyze(None)
\* is called and raises; in the except handler len(data) raises in turn and
\* ends the loop.
NoDataFallsThrough ==
    /\ pc = "menu"
    /\ data = None
    /\ pc' = "exited"
    /\ last' = Did("2", "error", <<"analytics.analyze">>, <<>>)
    /\ UNCHANGED <<data, ticker, start, end, logs, coreVars>>

\* choices "2" to "5" while data is None: the message, then continue
NoData ==
    /\ pc = "menu"
    /\ data = None
    /\ \E choice \in {"2", "3", "4", "5"} :
          last' = Did(choice, "nodata", <<>>, <<>>)
    /\ UNCHANGED <<pc, data, ticker, start, end, logs, coreVars>>

\* The rest of a handler of choices "2" to "5", once its try block has ended
\* with or without an exception.
Handled(choice, action, failed, invoked, writable) ==
    /\ logs' = log_action(logs,
                  LogLine(action, len(data), IF failed THEN "ERROR" ELSE "OK"),
                  writable)
    /\ last' = Did(choice, IF failed THEN "error" ELSE "ok", invoked,
                   <<IF failed THEN "ERROR" ELSE "OK">>)
    /\ UNCHANGED <<pc, data, ticker, start, end, coreVars>>

\* choice == "2"
Analyze ==
    /\ pc = "menu"
    /\ data # None
    /\ Len(logs) < MaxLog
    /\ \E writable \in BOOLEAN :
          LET res == analyze(data, FALSE)
              failed == res.raised \/ ~HasAttr("utils", "pretty_print_summary")
          IN  Handled("2", "ANALYZE", failed, <<"analytics.analyze">>, writable)

\* choice == "3"
Visualize ==
    /\ pc = "menu"
    /\ data # None
    /\ Len(logs) < MaxLog
    /\ \E writable \in BOOLEAN :
          LET failed == ~HasAttr("charts", "generate_all")
          IN  Handled("3", "VISUALIZE", failed,
                      IF failed THEN <<>> ELSE <<"charts.generate_all">>, writable)

\* choice == "4"; n is what int(n) makes of the typed text, None when it raises
Forecast ==
    /\ pc = "menu"
    /\ data # None
    /\ Len(logs) < MaxLog
    /\ \E writable \in BOOLEAN, typed \in {"", "3", "abc"} :
          LET bad == typed = "abc"
              failed == bad \/ ~HasAttr("forecast", "run_baselines")
          IN  Handled("4", "FORECAST", failed,
                      IF failed THEN <<>> ELSE <<"forecast.run_baselines">>, writable)

\* analytics.export_report: analyze raises through it, and so does a failing
\* mkdir; a failing to_csv is caught inside.
export_report(d, mkdir_ok) ==
    LET res == analyze(d, FALSE)
    IN  [raised |-> res.raised \/ ~mkdir_ok]

\* choice == "5"
Export ==
    /\ pc = "menu"
    /\ data # None
    /\ Len(logs) < MaxLog
    /\ \E writable \in BOOLEAN, mkdir_ok \in BOOLEAN :
          LET res == export_report(data, mkdir_ok)
          IN  Handled("5", "EXPORT", res.raised, <<"analytics.export_report">>,
                      writable)

\* choice == "6": sys.exit(0)
Quit ==
    /\ pc = "menu"
    /\ pc' = "exited"
    /\ last' = Did("6", "quit", <<>>, <<>>)
    /\ UNCHANGED <<data, ticker, start, end, logs, coreVars>>

\* any other text
InvalidChoice ==
    /\ pc = "menu"
    /\ last' = Did("invalid", "invalid", <<>>, <<>>)
    /\ UNCHANGED <<pc, data, ticker, start, end, logs, coreVars>>

MenuNext ==
    \/ Fetch
    \/ NoData
    \/ Analyze
    \/ Visualize
    \/ Forecast
    \/ Export
    \/ Quit
    \/ InvalidChoice

MenuSpec == MenuInit /\ [][MenuNext]_vars


(***************************************************************************)
(* Properties.  Those about the core functions are stated on the call      *)
(* record (call.arg is the input, call.res the result) and checked under   *)
(* Spec; those about the menu loop are checked under MenuSpec.             *)
(***************************************************************************)
IsCall(op) == call.op = op

\* The first-degree least-squares line through (0, ps[1]) .. (N-1, ps[N]),
\* stated by its normal equations: the residuals sum to zero and are
\* orthogonal to the index.
IsLeastSquaresLine(fit, ps) ==
    LET N == Len(ps)
        res == [i \in 1..N |-> RatSub(ToRat(ps[i]), LineAt(fit, i - 1))]
    IN  /\ RatSum(res) = ToRat(0)
        /\ RatSum([i \in 1..N |-> RatMul(ToRat(i - 1), res[i])]) = ToRat(0)

\* c hundredths is a 2-decimal rounding of q: within half a hundredth of it
\* (at an exact tie either neighbour is accepted)
RoundsTo(q, c) == 2 * Abs(100 * q.n - c * q.d) <= q.d

\* C1: forecastLinearTrend(prices, horizon) with N = len(prices) >= 2 returns
\* the fitted least-squares line evaluated at indices N, N+1, ..., N+horizon-1;
\* for [1,2,3,4] and horizon 2 the result is [5.0, 6.0].
C1_LinearTrendStartsAtN ==
    (IsCall("linear_trend_forecast") /\ Len(call.arg) >= 2) =>
        LET fit == polyfit(call.arg)
            N == Len(call.arg)
        IN  /\ IsLeastSquaresLine(fit, call.arg)
            /\ Len(call.res.ret) = call.days
            /\ \A k \in 1..call.days :
                  RoundsTo(LineAt(fit, N + k - 1), call.res.ret[k])
            /\ (call.arg = <<1, 2, 3, 4>> /\ call.days = 2) =>
                  call.res.ret = <<500, 600>>

\* C2: analyze called with an absent or empty series raises ValueError before
\* any indicator is computed and returns no summary.
C2_AnalyzeRejectsAbsentOrEmpty ==
    (IsCall("analyze") /\ (call.arg = None \/ empty(call.arg))) =>
        /\ call.res.raised
        /\ call.res.exc = "ValueError"
        /\ call.res.computed = <<>>
        /\ call.res.ret = None

C2_Witness ==
    /\ IsCall("analyze")
    /\ call.arg # None
    /\ empty(call.arg)
    /\ call.res.raised

\* C3: for every non-empty price series, also one shorter than the indicator
\* windows, analyze returns without raising a full summary in which every
\* field whose indicator is undefined (RSI, volatility, max drawdown and the
\* drawdown dates) is the sentinel "N/A".
C3_AnalyzeAlwaysSucceedsWithSentinels ==
    (IsCall("analyze") /\ call.arg # None /\ ~empty(call.arg)) =>
        LET rows == call.arg.rows
            summary == call.res.ret
        IN  /\ ~call.res.raised
            /\ ~RsiDefined(rows) => summary.rsi = "N/A"
            /\ ~VolDefined(rows) => summary.volatility_30d = NA
            /\ Len(rows) < 2 => /\ summary.max_drawdown = NA
                                /\ summary.dd_start = NA
                                /\ summary.dd_end = NA

\* C4: a forecast has exactly `horizon` values when the input suffices and
\* none otherwise: the moving average needs len(prices) >= window, the linear
\* trend len(prices) >= 2.
C4_ForecastLength ==
    /\ IsCall("moving_average_forecast") =>
          Len(call.res.ret) = IF Len(call.arg) < call.window THEN 0 ELSE call.days
    /\ IsCall("linear_trend_forecast") =>
          Len(call.res.ret) = IF Len(call.arg) < 2 THEN 0 ELSE call.days

C4_Witness ==
    /\ IsCall("moving_average_forecast")
    /\ call.arg # <<>>
    /\ Len(call.arg) < call.window
    /\ call.days > 0
    /\ call.res.ret = <<>>

RECURSIVE ExtendedRounded(_, _, _)
\* the historical prices followed by the first k forecast points as returned
ExtendedRounded(ps, forecast, k) ==
    IF k = 0 THEN [i \in 1..Len(ps) |-> ToRat(ps[i])]
    ELSE Append(ExtendedRounded(ps, forecast, k - 1), Rat(forecast[k], 100))

RECURSIVE ExtendedUnrounded(_, _, _)
\* the historical prices followed by the first k trailing-window means, each
\* taken over the sequence extended so far
ExtendedUnrounded(ps, window, k) ==
    IF k = 0 THEN [i \in 1..Len(ps) |-> ToRat(ps[i])]
    ELSE LET sofar == ExtendedUnrounded(ps, window, k - 1)
         IN  Append(sofar, mean(LastN(sofar, window)))

\* C5 as claimed: with len(prices) >= window, forecast point k is the rounded
\* mean of the last `window` values of the prices followed by forecast points
\* 1..k-1; [10,20,30], window 3, horizon 1 gives [20.0].
C5_FeedsBackForecastPoints ==
    (IsCall("moving_average_forecast") /\ Len(call.arg) >= call.window) =>
        /\ Len(call.res.ret) = call.days
        /\ \A k \in 1..call.days :
              RoundsTo(mean(LastN(ExtendedRounded(call.arg, call.res.ret, k - 1),
                                  call.window)),
                       call.res.ret[k])
        /\ (call.arg = <<10, 20, 30>> /\ call.window = 3 /\ call.days = 1) =>
              call.res.ret = <<2000>>

\* C5 as amended: with len(prices) >= window, forecast point k is the rounded
\* mean of the last `window` values of the prices followed by the unrounded
\* means of steps 1..k-1; [10,20,30], window 3, horizon 1 gives [20.0].
C5_FeedsBackUnroundedMeans ==
    (IsCall("moving_average_forecast") /\ Len(call.arg) >= call.window) =>
        /\ Len(call.res.ret) = call.days
        /\ \A k \in 1..call.days :
              call.res.ret[k] =
                 Round2(mean(LastN(ExtendedUnrounded(call.arg, call.window, k - 1),
                                   call.window)))
        /\ (call.arg = <<10, 20, 30>> /\ call.window = 3 /\ call.days = 1) =>
              call.res.ret = <<2000>>

C5_Witness ==
    /\ IsCall("moving_average_forecast")
    /\ call.arg = <<1, 1, 2>>
    /\ call.window = 3
    /\ call.days = 4
    /\ call.res.ret = <<133, 144, 159, 146>>

StrictlyIncreasing(xs) == \A i \in 1..(Len(xs) - 1) : xs[i] < xs[i + 1]

\* the drawdown series compute_drawdown derives from a price column
DrawdownOf(rows) == DrawdownSeries(cumprod(Plus1(pct_change(rows))))

\* C6: every drawdown value is <= 0, and for every strictly increasing price
\* series compute_drawdown reports max drawdown 0 with peak date and trough
\* date both the last date of the series.
C6_DrawdownNonPositiveAndIncreasing ==
    (IsCall("compute_drawdown") /\ call.arg # None /\ ~empty(call.arg)) =>
        LET rows == call.arg.rows
            dd == DrawdownOf(rows)
        IN  /\ \A t \in 1..Len(dd) : IsNaN(dd[t]) \/ RatLeq(dd[t], ToRat(0))
            /\ StrictlyIncreasing(rows) =>
                  /\ ~call.res.raised
                  /\ call.res.ret.max_drawdown = ToRat(0)
                  /\ call.res.ret.start_date = DateStr(Len(rows))
                  /\ call.res.ret.end_date = DateStr(Len(rows))

RECURSIVE CumValue(_, _)
\* cumValue[1] = 1 at the first date, cumValue[t] = cumValue[t-1] * (1 + return[t])
CumValue(rows, t) ==
    IF t = 1 THEN ToRat(1)
    ELSE RatMul(CumValue(rows, t - 1),
                RatAdd(ToRat(1), Rat(rows[t] - rows[t - 1], rows[t - 1])))

\* (cumValue[t] - runningMax[t]) / runningMax[t], the first date taking part
DrawdownFromFirstDate(rows) ==
    LET cv == [t \in 1..Len(rows) |-> CumValue(rows, t)]
    IN  [t \in 1..Len(rows) |->
            RatDiv(RatSub(cv[t], MaxTo(cv, t)), MaxTo(cv, t))]

\* C7: the max drawdown compute_drawdown reports is the minimum over all dates
\* of (cumValue - runningMax) / runningMax with cumValue = 1 at the first date,
\* so a price that halves from day 0 to day 1 has max drawdown -50%.
C7_MaxDrawdownFromFirstDate ==
    (IsCall("compute_drawdown") /\ call.arg # None /\ ~call.res.raised) =>
        /\ call.res.ret.max_drawdown =
              RatMul(min(DrawdownFromFirstDate(call.arg.rows)), ToRat(100))
        /\ call.arg.rows = <<2, 1>> => call.res.ret.max_drawdown = ToRat(-50)

\* the last row holding the maximum of xs
LastMaxRow(xs) ==
    CHOOSE t \in 1..Len(xs) :
        /\ ~IsNaN(xs[t]) /\ xs[t] = MaxTo(xs, Len(xs))
        /\ \A u \in (t + 1)..Len(xs) : IsNaN(xs[u]) \/ xs[u] # MaxTo(xs, Len(xs))

\* C8: the trough date is a date at which the drawdown series attains its
\* global minimum, and the peak date is the date of the running maximum of the
\* cumulative value at or before the trough date, the last such date when the
\* maximum is attained on several.
C8_PeakIsLastRunningMax ==
    (IsCall("compute_drawdown") /\ call.arg # None /\ ~call.res.raised) =>
        LET rows == call.arg.rows
            cum == cumprod(Plus1(pct_change(rows)))
            dd == DrawdownOf(rows)
        IN  \E trough \in 1..Len(rows) :
               /\ call.res.ret.end_date = DateStr(trough)
               /\ ~IsNaN(dd[trough])
               /\ dd[trough] = min(dd)
               /\ call.res.ret.start_date = DateStr(LastMaxRow(SubSeq(cum, 1, trough)))

\* C9: no core operation modifies its caller's input: after compute_returns,
\* compute_drawdown or analyze returns or raises the caller's frame has the
\* rows and columns it had, and after either forecast the caller's price list
\* has the length and elements it had.
C9_CallerInputUnchanged ==
    /\ (IsCall("compute_returns") \/ IsCall("compute_drawdown") \/ IsCall("analyze")) =>
          /\ df = call.arg
          /\ call.arg # None => (df.rows = call.arg.rows /\ df.cols = call.arg.cols)
    /\ (IsCall("moving_average_forecast") \/ IsCall("linear_trend_forecast")) =>
          /\ Len(prices) = Len(call.arg)
          /\ \A i \in 1..Len(call.arg) : prices[i] = call.arg[i]

C9_Witness ==
    /\ IsCall("compute_returns")
    /\ ~call.res.raised
    /\ ~empty(call.arg)
    /\ {"Return", "Cumulative"} \subseteq call.res.ret.cols
    /\ {"Return", "Cumulative"} \cap df.cols = {}


\* the variables of main() and logs.csv, without the record of the iteration
MenuState == <<pc, data, ticker, start, end, logs>>

\* some line with status ERROR was appended to lg, and nothing else changed
OneErrorLineAdded(lg, lg2) ==
    /\ Len(lg2) = Len(lg) + 1
    /\ SubSeq(lg2, 1, Len(lg)) = lg
    /\ lg2[Len(lg2)].status = "ERROR"

\* an invalid choice changes no state; the loop ends only on choice 6
C10_InvalidAndQuit ==
    /\ last'.outcome = "invalid" => UNCHANGED MenuState
    /\ pc' # pc => (last'.choice = "6" /\ pc' = "exited")

\* C10 as claimed: a failure while handling option 1 to 5 is caught in that
\* iteration, is logged once with status ERROR, leaves data as it was, and the
\* menu is shown again; an invalid choice changes no state; the loop ends only
\* when option 6 is chosen.
C10_FailureLoggedOnce ==
    [][/\ last'.outcome = "error" =>
             /\ last'.choice \in {"1", "2", "3", "4", "5"}
             /\ pc' = "menu"
             /\ data' = data
             /\ OneErrorLineAdded(logs, logs')
       /\ C10_InvalidAndQuit]_vars

\* C10 as amended: the failure is caught in that iteration, is passed once to
\* log_action with status ERROR, which appends that one line to logs.csv or,
\* when logs.csv cannot be written, nothing; data is left as it was and the
\* menu is shown again; an invalid choice changes no state; the loop ends only
\* when option 6 is chosen.
C10_FailureHandedToLogOnce ==
    [][/\ last'.outcome = "error" =>
             /\ last'.choice \in {"1", "2", "3", "4", "5"}
             /\ pc' = "menu"
             /\ data' = data
             /\ last'.statuses = <<"ERROR">>
             /\ (logs' = logs \/ OneErrorLineAdded(logs, logs'))
       /\ C10_InvalidAndQuit]_vars

\* a fetch has failed after an earlier one succeeded, and the earlier data and
\* the ERROR line are both there
C10_Witness ==
    /\ pc = "menu"
    /\ last.choice = "1"
    /\ last.outcome = "error"
    /\ data # None
    /\ logs # <<>>
    /\ logs[Len(logs)].status = "ERROR"


\* what options 2 to 5 call, and what they log
DataUses == {"analytics.analyze", "charts.generate_all", "forecast.run_baselines",
             "analytics.export_report"}
DataActions == {"ANALYZE", "VISUALIZE", "FORECAST", "EXPORT"}

\* C11: while no fetch has succeeded (data is None) no iteration invokes
\* analyze, chart generation, forecast or export and logs.csv holds no ANALYZE,
\* VISUALIZE, FORECAST or EXPORT line; once a fetch has succeeded data is never
\* None again, and a later failed fetch keeps the data fetched before.
C11_NoUseBeforeFetch ==
    [][/\ data = None =>
             /\ \A i \in 1..Len(last'.invoked) : last'.invoked[i] \notin DataUses
             /\ \A i \in 1..Len(logs') : logs'[i].action \notin DataActions
       /\ data # None => data' # None
       /\ (last'.choice = "1" /\ last'.outcome = "error") => data' = data]_vars

\* an option that needs data was chosen before any fetch had succeeded, after
\* a failed fetch was logged
C11_Witness ==
    /\ data = None
    /\ last.choice \in {"2", "3", "4", "5"}
    /\ last.outcome = "nodata"
    /\ logs # <<>>
    /\ logs[Len(logs)].action = "FETCH"
    /\ logs[Len(logs)].status = "ERROR"


=============================================================================
